---- MODULE Spec2Model ----
(***************************************************************************)
(* A model of pmd_pkdpx (src/src/lib.rs): the PX container decoder          *)
(* (decompress_px / decompress_px_raw), the header probe (is_px) and the    *)
(* naive encoder (naive_compression).  One behaviour of the model is one    *)
(* call: is_px(file), decompress_px(file), or the composition               *)
(* decompress_px(naive_compression(file)).                                  *)
(*                                                                          *)
(* Bytes are the integers 0..255 and every u8 operation is taken modulo     *)
(* 256.  Rust's arithmetic overflow depends on the build: with overflow     *)
(* checks (debug) it panics, without them (release) it wraps.  The state    *)
(* variable overflow_checks is the build; both builds are explored.         *)
(***************************************************************************)
EXTENDS Integers, Sequences, FiniteSets, TLC

\* ------------------------------------------------------------------ bounds

\* longest input offered to naive_compression (9 needs a second command byte)
MaxInput == 9
\* longest compressed payload of a hand-built container
MaxPayload == 4
\* largest declared decompressed length of a hand-built container
MaxDeclared == 3

\* ------------------------------------------------------- program constants

\* b"PKDPX" and b"AT4PX"
PKDPX == <<80, 75, 68, 80, 88>>
AT4PX == <<65, 84, 52, 80, 88>>
\* header length passed to decompress_px_raw for each variant
HeaderLenPKDPX == 20
HeaderLenAT4PX == 18
\* the is_px guard: streams shorter than this are reported as "not PX"
MinSniffLen == 4
\* number of magic bytes read
MagicLen == 5
\* number of control flags
NbFlags == 9
\* command byte of the naive encoder and its padding byte
CommandAllLiteral == 255
PaddingByte == 170
PaddingAlign == 16
\* core::u16::MAX
U16Max == 65535
\* -0x1000, the base of a back-reference's relative offset
OffsetBase == -4096
\* minimal length of a back-reference copy
MinCopy == 3

\* ---------------------------------------------------------------- results

NoOutcome == [kind |-> "None", err |-> "", data |-> <<>>, flag |-> FALSE]
Ok(buf) == [kind |-> "Ok", err |-> "", data |-> buf, flag |-> FALSE]
OkBool(b) == [kind |-> "Ok", err |-> "", data |-> <<>>, flag |-> b]
Err(e, d) == [kind |-> "Err", err |-> e, data |-> d, flag |-> FALSE]
IOError == Err("IOError", <<>>)
InvalidHeaderMagic(h) == Err("InvalidHeaderMagic", h)
InvalidDecompressedLength == Err("InvalidDecompressedLength", <<>>)
FileToCompressTooLong(n) == Err("FileToCompressTooLong", <<n>>)
Panic(msg) == [kind |-> "Panic", err |-> msg, data |-> <<>>, flag |-> FALSE]

\* ------------------------------------------------------- byte primitives

\* u8 truncation
U8(x) == x % 256

\* (byte >> (7 - id) << 7) >= 1, both shifts on a u8
get_bit(byte, id) == U8((byte \div (2 ^ (7 - id))) * 128) >= 1

\* this_byte >> 4 and this_byte << 4 >> 4
NbHigh(this_byte) == this_byte \div 16
NbLow(this_byte) == U8(this_byte * 16) \div 16

\* u16::from_le_bytes, u32::from_le_bytes
U16FromLE(b) == b[1] + 256 * b[2]
U32FromLE(b) == b[1] + 256 * b[2] + 65536 * b[3] + 16777216 * b[4]

\* u16::to_le_bytes, u32::to_le_bytes
U16ToLE(n) == <<n % 256, (n \div 256) % 256>>
U32ToLE(n) == <<n % 256, (n \div 256) % 256, (n \div 65536) % 256, (n \div 16777216) % 256>>

\* read_exact of n bytes at offset p of stream f: can it be served?
CanRead(f, p, n) == p + n <= Len(f)
\* the n bytes at offset p (offsets are 0-based, sequences 1-based)
Bytes(f, p, n) == SubSeq(f, p + 1, p + n)

\* ControlFlags::find: the first index (0-based) holding nb_high, -1 for None
find(value, nb_high) ==
    IF \E v \in 1..Len(value) : value[v] = nb_high
    THEN (CHOOSE v \in 1..Len(value) :
            /\ value[v] = nb_high
            /\ \A w \in 1..(v - 1) : value[w] # nb_high) - 1
    ELSE -1

\* ------------------------------------------------ nybble-pattern synthesis

\* lines 159-164: the base nybble, adjusted once for flag index 1 and 5
PreAdjust(i, nb_low) ==
    IF i = 1 THEN nb_low + 1 ELSE IF i = 5 THEN nb_low - 1 ELSE nb_low

\* lines 166-176: nybble k (0..3) of the four copies of nybbleval, after the
\* one adjustment flag index i selects
Adjust(i, k, nybbleval) ==
    IF i = k + 1 THEN nybbleval - 1
    ELSE IF i = k + 5 THEN nybbleval + 1
    ELSE nybbleval

\* (hi << 4) + lo on u8: the shift drops the bits it moves out, the sum is
\* overflow-checked
Join(hi, lo) == U8(hi * 16) + lo

\* lines 153-179: the pair a found control flag synthesizes.  b0, b1 are the
\* bytes a build without overflow checks produces (every step wrapped to 8
\* bits); ovf tells whether some checked u8 operation overflowed, which is a
\* panic in a build with overflow checks; unreachable is line 175.
PairBytes(i, nb_low) ==
    IF i = 0
    THEN [ovf |-> Join(nb_low, nb_low) > 255, unreachable |-> FALSE,
          b0 |-> U8(Join(nb_low, nb_low)), b1 |-> U8(Join(nb_low, nb_low))]
    ELSE LET pre == PreAdjust(i, nb_low)
             nybbleval == pre % 256
             raw == [k \in 0..3 |-> Adjust(i, k, nybbleval)]
             n == [k \in 0..3 |-> raw[k] % 256]
             s0 == Join(n[0], n[1])
             s1 == Join(n[2], n[3])
         IN [ovf |-> \/ pre < 0 \/ pre > 255
                     \/ \E k \in 0..3 : raw[k] < 0 \/ raw[k] > 255
                     \/ s0 > 255 \/ s1 > 255,
             unreachable |-> i < 1 \/ i > 8,
             b0 |-> U8(s0), b1 |-> U8(s1)]

\* a mutant of OffsetRel: the nibble shifted by 4 bits instead of 8
OffsetRel_Nibble(nb_low, new_byte) == OffsetBase + ((nb_low * 16) + new_byte)

\* line 186-187: offset_rel (i16; the operands stay within i16)
OffsetRel(nb_low, new_byte) == OffsetBase + ((nb_low * 256) + new_byte)

\* line 189: lenght
CopyLenght(nb_high) == nb_high + MinCopy

\* line 198: result[c as usize] is in bounds (a negative c becomes a huge usize)
IndexInBounds(buf, idx) == idx >= 0 /\ idx < Len(buf)

\* line 204: the test that ends the decode loop
ReachedLength(buf, decompressed) == Len(buf) >= decompressed

\* a mutant of LengthMatches: the header is taken to be 20 bytes long, as the
\* trace message of line 214 does, whatever the variant
LengthMatches_Fixed20(container, position, header) == container = position + 20

\* line 221: the final consumed-length test
LengthMatches(container, position, header) == container = position + header

\* lines 96-116: the header length of a magic, 0 when it is neither tag
HeaderLenght(magic) ==
    IF magic = PKDPX THEN HeaderLenPKDPX
    ELSE IF magic = AT4PX THEN HeaderLenAT4PX
    ELSE 0

\* a mutant of IsPxMagic: only the first four bytes are compared
IsPxMagic_First4(magic) ==
    SubSeq(magic, 1, 4) = SubSeq(PKDPX, 1, 4) \/ SubSeq(magic, 1, 4) = SubSeq(AT4PX, 1, 4)

\* lines 242-248: the magic names a PX container
IsPxMagic(magic) == magic = PKDPX \/ magic = AT4PX

\* line 270: a command byte precedes this literal
NeedsCommand(nb) == nb % 8 = 0

\* lines 282-284: the buffer padded with 0xAA to a multiple of 16
RECURSIVE Padded(_)
Padded(buf) ==
    IF Len(buf) % PaddingAlign # 0 THEN Padded(Append(buf, PaddingByte)) ELSE buf

\* a mutant of Patched: the length is taken after the padding
Patched_AfterPadding(buf, n) ==
    [k \in 1..Len(buf) |->
        IF k = 6 THEN Len(buf) % 256
        ELSE IF k = 7 THEN (Len(buf) \div 256) % 256
        ELSE buf[k]]

\* lines 290-292: bytes 5 and 6 overwritten with the container length
Patched(buf, n) ==
    [k \in 1..Len(buf) |->
        IF k = 6 THEN U16ToLE(n)[1] ELSE IF k = 7 THEN U16ToLE(n)[2] ELSE buf[k]]

\* lines 256-266: the header naive_compression writes before the payload
NaiveHeader(size) ==
    PKDPX \o U16ToLE(0) \o [k \in 1..NbFlags |-> 0] \o U32ToLE(size)

\* ------------------------------------------------------------------ state

VARIABLES
    call,                   \* the public function called first
    overflow_checks,        \* the build panics on integer overflow (else wraps)
    input,                  \* the stream handed to that call
    file,                   \* the stream the running function reads
    pos,                    \* the cursor of file
    pc,                     \* where the running function stands
    outcome,                \* what the finished function returned
    result,                 \* the Vec being built
    header_5, container_lenght, control_flags, decompressed_lenght, header_lenght,
    current_file_position, current_file_len,
    raw_pos,                \* the cursor of raw_file, relative to the window
    byte_info, bit_num, this_byte, new_byte, offset, lenght, c,
    len_at_cmd,             \* result.len() as read on line 188
    decompressed_size, loop_nb

envv == <<call, overflow_checks, input>>
hdrv == <<header_5, container_lenght, control_flags, decompressed_lenght, header_lenght>>
winv == <<current_file_position, current_file_len>>
bitv == <<byte_info, bit_num>>
refv == <<new_byte, offset, lenght, c, len_at_cmd>>
encv == <<decompressed_size, loop_nb>>
vars == <<envv, file, pos, pc, outcome, result, hdrv, winv, raw_pos, bitv,
          this_byte, refv, encv>>

\* ----------------------------------------------------------------- inputs

\* bytes offered to naive_compression
InputBytes == {17, 170}
Inputs == UNION {[1..n -> InputBytes] : n \in 0..MaxInput}

\* payload bytes of hand-built containers.  As command bytes: 0x0F (four
\* encoded units, then four literals), 0x80 (a literal, then encoded units),
\* 0xFF (literals).  As mode bytes they are a pattern or a back-reference
\* according to the table; 0x0F followed by 0xFF is the back-reference at -1.
PayloadBytes == {15, 128, 255}
Payloads == UNION {[1..n -> PayloadBytes] : n \in 0..MaxPayload}

ZeroFlags == [k \in 1..NbFlags |-> 0]
SeqFlags == [k \in 1..NbFlags |-> k]
Tables == {ZeroFlags, SeqFlags}

\* magics that are neither tag: "PKDPY" and five zero bytes
BadMagics == {<<80, 75, 68, 80, 89>>, <<0, 0, 0, 0, 0>>}

ContainerLengths == 20..24

\* the header of section 6's layout
Header(magic, clen, flags, declared) ==
    magic \o U16ToLE(clen) \o flags
          \o (IF magic = AT4PX THEN U16ToLE(declared) ELSE U32ToLE(declared))

Containers ==
    {Header(m, cl, t, d) \o p :
        m \in {PKDPX, AT4PX}, cl \in ContainerLengths, t \in Tables,
        d \in 0..MaxDeclared, p \in Payloads}

\* one command byte of eight encoded units and every possible mode byte
PairStreams == {Header(PKDPX, 22, SeqFlags, 2) \o <<0, m>> : m \in 0..255}

\* every prefix (the empty one included) of a one-literal container under
\* each magic, known or not
OneLiteral(m) == Header(m, HeaderLenght(m) + 2, ZeroFlags, 1) \o <<255, 17>>
ShortStreams ==
    UNION {{SubSeq(OneLiteral(m), 1, n) : n \in 0..Len(OneLiteral(m))} :
            m \in {PKDPX, AT4PX} \cup BadMagics}

Init ==
    /\ overflow_checks \in BOOLEAN
    /\ \/ call = "is_px" /\ input \in ShortStreams
       \/ call = "decompress_px" /\ input \in ShortStreams \cup Containers \cup PairStreams
       \/ call = "naive_compression" /\ input \in Inputs
    /\ file = input
    /\ pc = call
    /\ pos = 0
    /\ outcome = NoOutcome
    /\ result = <<>>
    /\ header_5 = <<>> /\ container_lenght = 0 /\ control_flags = <<>>
    /\ decompressed_lenght = 0 /\ header_lenght = 0
    /\ current_file_position = 0 /\ current_file_len = 0 /\ raw_pos = 0
    /\ byte_info = 0 /\ bit_num = 0 /\ this_byte = 0
    /\ new_byte = 0 /\ offset = 0 /\ lenght = 0 /\ c = 0 /\ len_at_cmd = 0
    /\ decompressed_size = 0 /\ loop_nb = 0

\* the running function returns o (or panics with it)
Return(o) == pc' = "done" /\ outcome' = o

\* ------------------------------------------------------------------ is_px

\* lines 232-249
is_px ==
    /\ pc = "is_px"
    /\ IF Len(file) < MinSniffLen THEN Return(OkBool(FALSE))
       ELSE IF ~CanRead(file, 0, MagicLen) THEN Return(IOError)
       ELSE Return(OkBool(IsPxMagic(Bytes(file, 0, MagicLen))))
    /\ pos' = IF CanRead(file, 0, MagicLen) THEN MagicLen ELSE Len(file)
    /\ UNCHANGED <<envv, file, result, hdrv, winv, raw_pos, bitv, this_byte, refv, encv>>

\* ------------------------------------------------------ naive_compression

\* lines 253-268: the sizes, the rewind and the header
CompressHeader ==
    /\ pc = "naive_compression"
    /\ decompressed_size' = Len(file)
    /\ pos' = 0
    /\ result' = NaiveHeader(Len(file))
    /\ loop_nb' = 0
    /\ pc' = "compress_loop"
    /\ UNCHANGED <<envv, file, outcome, hdrv, winv, raw_pos, bitv, this_byte, refv>>

\* lines 269-279: one turn of the loop
CompressStep ==
    /\ pc = "compress_loop"
    /\ LET withcmd == IF NeedsCommand(loop_nb)
                      THEN Append(result, CommandAllLiteral) ELSE result
       IN IF ~CanRead(file, pos, 1)
          THEN /\ Return(IOError)
               /\ result' = withcmd
               /\ UNCHANGED <<pos, loop_nb>>
          ELSE /\ result' = Append(withcmd, file[pos + 1])
               /\ pos' = pos + 1
               /\ IF pos + 1 >= decompressed_size
                  THEN pc' = "compress_end" /\ UNCHANGED loop_nb
                  ELSE pc' = "compress_loop" /\ loop_nb' = loop_nb + 1
               /\ UNCHANGED outcome
    /\ UNCHANGED <<envv, file, hdrv, winv, raw_pos, bitv, this_byte, refv, decompressed_size>>

\* lines 281-294: the padding, the size test and the patched length
CompressFinish ==
    /\ pc = "compress_end"
    /\ LET container == Len(result)
       IN /\ result' = IF container > U16Max THEN Padded(result)
                       ELSE Patched(Padded(result), container)
          /\ IF container > U16Max
             THEN Return(FileToCompressTooLong(container))
             ELSE /\ pc' = "compressed"
                  /\ outcome' = Ok(Patched(Padded(result), container))
    /\ UNCHANGED <<envv, file, pos, hdrv, winv, raw_pos, bitv, this_byte, refv, encv>>

\* decompress_px(Cursor::new(naive_compression(input)?)): the returned
\* container becomes the stream of decompress_px
RoundTrip ==
    /\ pc = "compressed"
    /\ file' = outcome.data
    /\ pos' = 0
    /\ result' = <<>>
    /\ outcome' = NoOutcome
    /\ pc' = "decompress_px"
    /\ UNCHANGED <<envv, hdrv, winv, raw_pos, bitv, this_byte, refv, encv>>

\* ---------------------------------------------------------- decompress_px

\* lines 84-117: the header reads and the dispatch on the magic.  The magic,
\* the container length and the control flags are read (each read can fail)
\* before the magic is looked at.
decompress_px ==
    /\ pc = "decompress_px"
    /\ IF ~CanRead(file, 0, MagicLen + 2 + NbFlags)
       THEN /\ Return(IOError)
            /\ UNCHANGED <<pos, hdrv>>
       ELSE LET magic == Bytes(file, 0, MagicLen)
                fields == MagicLen + 2 + NbFlags
                width == IF magic = PKDPX THEN 4 ELSE 2
            IN /\ header_5' = magic
               /\ container_lenght' = U16FromLE(Bytes(file, MagicLen, 2))
               /\ control_flags' = Bytes(file, MagicLen + 2, NbFlags)
               /\ IF ~IsPxMagic(magic)
                  THEN /\ Return(InvalidHeaderMagic(magic))
                       /\ pos' = fields
                       /\ UNCHANGED <<decompressed_lenght, header_lenght>>
                  ELSE IF ~CanRead(file, fields, width)
                  THEN /\ Return(IOError)
                       /\ pos' = fields
                       /\ UNCHANGED <<decompressed_lenght, header_lenght>>
                  ELSE /\ decompressed_lenght' =
                            IF magic = PKDPX THEN U32FromLE(Bytes(file, fields, 4))
                            ELSE U16FromLE(Bytes(file, fields, 2))
                       /\ header_lenght' = HeaderLenght(magic)
                       /\ pos' = fields + width
                       /\ pc' = "raw"
                       /\ UNCHANGED outcome
    /\ UNCHANGED <<envv, file, result, winv, raw_pos, bitv, this_byte, refv, encv>>

\* ------------------------------------------------------ decompress_px_raw

\* line 132 underflows: current_file_len - current_file_position on u64
WindowUnderflow == current_file_len < current_file_position

\* The window of raw_file.  Without underflow it holds
\* current_file_len - current_file_position bytes.  With underflow (and no
\* overflow checks) its length wraps to 2^64 - (position - len), more than
\* any stream holds, so only the end of the stream bounds the reads.
InWindow(p) == WindowUnderflow \/ p < current_file_len - current_file_position

\* px_read_u8(&mut raw_file) at cursor p can be served
RawCanRead(p) == InWindow(p) /\ CanRead(file, current_file_position + p, 1)
RawByte(p) == file[current_file_position + p + 1]

\* lines 126-134: the window over the payload.  seek(SeekFrom::Start(0))
\* moves the cursor to the start and returns the new position, 0, which the
\* code takes for the stream's length.  The subtraction then underflows: a
\* panic with overflow checks, a wrapped length without.  Partition::new is
\* handed a window whose end is past u64::MAX and either refuses it (the
\* unwrap panics) or accepts it.
RawWindow ==
    /\ pc = "raw"
    /\ result' = <<>>
    /\ current_file_position' = pos
    /\ current_file_len' = 0
    /\ pos' = 0
    /\ raw_pos' = 0
    /\ IF 0 < pos /\ overflow_checks
       THEN Return(Panic("attempt to subtract with overflow"))
       ELSE \E accepted \in (IF 0 < pos THEN BOOLEAN ELSE {TRUE}) :
               IF accepted
               THEN pc' = "cmd" /\ UNCHANGED outcome
               ELSE Return(Panic("called Result::unwrap() on an Err value"))
    /\ UNCHANGED <<envv, file, hdrv, bitv, this_byte, refv, encv>>

\* lines 138-139: the command byte of the next eight units
ReadCommandByte ==
    /\ pc = "cmd"
    /\ bit_num' = 0
    /\ IF RawCanRead(raw_pos)
       THEN /\ byte_info' = RawByte(raw_pos)
            /\ raw_pos' = raw_pos + 1
            /\ pc' = "bit"
            /\ UNCHANGED outcome
       ELSE /\ Return(IOError)
            /\ UNCHANGED <<byte_info, raw_pos>>
    /\ UNCHANGED <<envv, file, pos, result, hdrv, winv, this_byte, refv, encv>>

\* line 143 fails: the stream ends where a unit's byte is due
ProcessBitEOF ==
    /\ pc = "bit"
    /\ ~RawCanRead(raw_pos)
    /\ Return(IOError)
    /\ UNCHANGED <<envv, file, pos, result, hdrv, winv, raw_pos, bitv, this_byte,
                   refv, encv>>

\* lines 142-147: a set bit, the byte is a literal
ProcessLiteral ==
    /\ pc = "bit"
    /\ RawCanRead(raw_pos)
    /\ get_bit(byte_info, bit_num)
    /\ this_byte' = RawByte(raw_pos)
    /\ raw_pos' = raw_pos + 1
    /\ result' = Append(result, RawByte(raw_pos))
    /\ pc' = "endbit"
    /\ UNCHANGED <<envv, file, pos, outcome, hdrv, winv, bitv, refv, encv>>

\* lines 149-183: a clear bit and a control flag found, a synthesized pair
ProcessPair ==
    /\ pc = "bit"
    /\ RawCanRead(raw_pos)
    /\ ~get_bit(byte_info, bit_num)
    /\ LET b == RawByte(raw_pos)
           ctrlflagindex == find(control_flags, NbHigh(b))
           pair == PairBytes(ctrlflagindex, NbLow(b))
       IN /\ ctrlflagindex >= 0
          /\ this_byte' = b
          /\ raw_pos' = raw_pos + 1
          /\ IF pair.unreachable
             THEN Return(Panic("explicit panic")) /\ UNCHANGED result
             ELSE IF pair.ovf /\ overflow_checks
             THEN Return(Panic("arithmetic overflow")) /\ UNCHANGED result
             ELSE /\ result' = result \o <<pair.b0, pair.b1>>
                  /\ pc' = "endbit"
                  /\ UNCHANGED outcome
    /\ UNCHANGED <<envv, file, pos, hdrv, winv, bitv, refv, encv>>

\* lines 184-190: a clear bit and no control flag, a back-reference is set up
ProcessBackRef ==
    /\ pc = "bit"
    /\ RawCanRead(raw_pos)
    /\ ~get_bit(byte_info, bit_num)
    /\ LET b == RawByte(raw_pos)
       IN /\ find(control_flags, NbHigh(b)) < 0
          /\ this_byte' = b
          /\ IF ~RawCanRead(raw_pos + 1)
             THEN /\ Return(IOError)
                  /\ raw_pos' = raw_pos + 1
                  /\ UNCHANGED refv
             ELSE LET nb == RawByte(raw_pos + 1)
                      from == OffsetRel(NbLow(b), nb) + Len(result)
                  IN /\ new_byte' = nb
                     /\ raw_pos' = raw_pos + 2
                     /\ len_at_cmd' = Len(result)
                     /\ offset' = from
                     /\ lenght' = CopyLenght(NbHigh(b))
                     /\ c' = from
                     /\ pc' = "copy"
                     /\ UNCHANGED outcome
    /\ UNCHANGED <<envv, file, pos, result, hdrv, winv, bitv, encv>>

\* lines 197-199: one turn of the copy loop
CopyByte ==
    /\ pc = "copy"
    /\ IF ~IndexInBounds(result, c)
       THEN /\ Return(Panic("index out of bounds"))
            /\ UNCHANGED <<result, c>>
       ELSE /\ result' = Append(result, result[c + 1])
            /\ c' = c + 1
            /\ pc' = IF c + 1 < offset + lenght THEN "copy" ELSE "endbit"
            /\ UNCHANGED outcome
    /\ UNCHANGED <<envv, file, pos, hdrv, winv, raw_pos, bitv, this_byte,
                   new_byte, offset, lenght, len_at_cmd, encv>>

\* lines 203-207: the unit is done; leave the loop once the declared length is
\* reached, else go on with the next bit or the next command byte
EndBit ==
    /\ pc = "endbit"
    /\ bit_num' = bit_num + 1
    /\ pc' = IF ReachedLength(result, decompressed_lenght) THEN "check"
             ELSE IF bit_num + 1 < 8 THEN "bit" ELSE "cmd"
    /\ UNCHANGED <<envv, file, pos, outcome, result, hdrv, winv, raw_pos, byte_info,
                   this_byte, refv, encv>>

\* lines 221-224: the bytes read, plus the header, are the container length
CheckLength ==
    /\ pc = "check"
    /\ IF LengthMatches(container_lenght, raw_pos, header_lenght)
       THEN Return(Ok(result))
       ELSE Return(InvalidDecompressedLength)
    /\ UNCHANGED <<envv, file, pos, result, hdrv, winv, raw_pos, bitv, this_byte,
                   refv, encv>>

\* ------------------------------------------------------------ specification

Next ==
    \/ is_px
    \/ CompressHeader \/ CompressStep \/ CompressFinish \/ RoundTrip
    \/ decompress_px \/ RawWindow \/ ReadCommandByte
    \/ ProcessBitEOF \/ ProcessLiteral \/ ProcessPair \/ ProcessBackRef
    \/ CopyByte \/ EndBit \/ CheckLength

Spec == Init /\ [][Next]_vars

\* ------------------------------------------------------------------ claims

\* C1 (as stated): for every byte sequence B, the empty one included,
\* decompress_px(naive_compression(B)) returns exactly B: a round trip that
\* has ended has ended with Ok(B).
C1_RoundTrip ==
    (call = "naive_compression" /\ pc = "done") => outcome = Ok(input)

\* C2 (as stated): the output never grows past the declared decompressed
\* length, and a returned buffer has exactly that length.
C2_ExactDeclaredLength ==
    /\ (call # "is_px" /\ pc \in {"copy", "endbit", "check"})
            => Len(result) <= decompressed_lenght
    /\ (call # "is_px" /\ pc = "done" /\ outcome.kind = "Ok")
            => Len(outcome.data) = decompressed_lenght

C4_SniffTotal ==
    (call = "is_px" /\ pc = "done") =>
        outcome = OkBool(/\ Len(input) >= 4
                         /\ Len(input) >= 5
                         /\ SubSeq(input, 1, 5) \in {PKDPX, AT4PX})

\* C5 (as stated): a buffer whose bytes 0-4 are neither tag fails with
\* InvalidHeaderMagic carrying those bytes whatever follows, also when it
\* ends inside the 16 bytes of magic, length and control flags, and the
\* decode loop never runs.
C5_BadMagicAnyLength ==
    (call = "decompress_px" /\ Len(input) >= 5
        /\ SubSeq(input, 1, 5) \notin {PKDPX, AT4PX}) =>
            /\ pc \in {"decompress_px", "done"}
            /\ pc = "done" => outcome = InvalidHeaderMagic(SubSeq(input, 1, 5))

\* C5 (amended): the same for buffers of at least 16 bytes; a shorter buffer
\* fails with an I/O error before the magic is looked at.
C5_BadMagicFullHeader ==
    (call = "decompress_px" /\ Len(input) >= 5
        /\ SubSeq(input, 1, 5) \notin {PKDPX, AT4PX}) =>
            /\ pc \in {"decompress_px", "done"}
            /\ pc = "done" =>
                outcome = IF Len(input) >= 16
                          THEN InvalidHeaderMagic(SubSeq(input, 1, 5))
                          ELSE IOError

\* C5 witness: "PKDPY" followed by exactly the length field and the flags.
C5_Witness ==
    /\ call = "decompress_px" /\ pc = "done"
    /\ Len(input) = 16
    /\ outcome = InvalidHeaderMagic(<<80, 75, 68, 80, 89>>)

\* C6 (as stated): a back-reference whose source index is negative or past
\* the output ends the call with a typed error.
C6_BackRefTypedError ==
    [][(pc = "copy" /\ (c < 0 \/ c >= Len(result))) => outcome'.kind = "Err"]_vars

\* C7 (as stated): a 1-byte input gives a container of a multiple of 16
\* bytes, with container length 21 and 0xAA from there to the end.
C7_OneByteLength21 ==
    (call = "naive_compression" /\ Len(input) = 1) =>
        /\ ~(pc = "done" /\ file = input)
        /\ pc = "compressed" =>
            /\ outcome.kind = "Ok"
            /\ Len(outcome.data) % 16 = 0
            /\ outcome.data[6] + 256 * outcome.data[7] = 21
            /\ \A k \in 21..(Len(outcome.data) - 1) : outcome.data[k + 1] = 170

\* C7 (amended): the container length is 22, the 20-byte header, the command
\* byte and the literal.
C7_OneByteLength22 ==
    (call = "naive_compression" /\ Len(input) = 1) =>
        /\ ~(pc = "done" /\ file = input)
        /\ pc = "compressed" =>
            /\ outcome.kind = "Ok"
            /\ Len(outcome.data) % 16 = 0
            /\ outcome.data[6] + 256 * outcome.data[7] = 22
            /\ \A k \in 22..(Len(outcome.data) - 1) : outcome.data[k + 1] = 170

\* C7 witness: the 32-byte container of the input 0x11.
C7_Witness ==
    /\ call = "naive_compression" /\ pc = "compressed"
    /\ input = <<17>>
    /\ Len(outcome.data) = 32
    /\ outcome.data[22] = 17

\* C8 (as stated): for every flag index i in 0..8 and every lower nibble, a
\* unit whose upper nibble is found at i appends exactly the two bytes of the
\* pattern, each nibble of which stays within 0..15.
C8_PairExact ==
    [][(/\ pc = "bit" /\ RawCanRead(raw_pos) /\ ~get_bit(byte_info, bit_num)
        /\ find(control_flags, RawByte(raw_pos) \div 16) >= 0) =>
        LET i == find(control_flags, RawByte(raw_pos) \div 16)
            nb_low == RawByte(raw_pos) % 16
            base == IF i = 1 THEN nb_low + 1 ELSE IF i = 5 THEN nb_low - 1 ELSE nb_low
            n == [k \in 0..3 |->
                    IF i = 0 THEN nb_low
                    ELSE IF i = k + 1 THEN base - 1
                    ELSE IF i = k + 5 THEN base + 1
                    ELSE base]
        IN /\ \A k \in 0..3 : n[k] \in 0..15
           /\ result' = result \o <<n[0] * 16 + n[1], n[2] * 16 + n[3]>>]_vars

\* the unit being processed is a back-reference
InBackRef ==
    /\ pc \in {"copy", "endbit"}
    /\ ~get_bit(byte_info, bit_num)
    /\ find(control_flags, this_byte \div 16) < 0

\* C9: a back-reference has offset_rel = -4096 + nb_low*256 + new_byte in
\* [-4096, -1]; when its source index L + offset_rel is not negative it
\* appends nb_high + 3 bytes, the k-th a copy of the byte at index
\* L + offset_rel + k, and every byte is read below the end of the output.
C9_BackReference ==
    InBackRef =>
        LET nb_high == this_byte \div 16
            nb_low == this_byte % 16
            rel == -4096 + nb_low * 256 + new_byte
            L == len_at_cmd
            copied == Len(result) - L
        IN /\ rel \in -4096..-1
           /\ offset = L + rel
           /\ lenght = nb_high + 3
           /\ L + rel >= 0 =>
                /\ copied \in 0..(nb_high + 3)
                /\ pc = "endbit" => copied = nb_high + 3
                /\ pc = "copy" => c = L + rel + copied /\ c < Len(result)
                /\ \A k \in 0..(copied - 1) :
                        result[L + k + 1] = result[L + rel + k + 1]

\* C9 witness: a finished copy of 3 bytes from offset -1, which repeats the
\* last byte.
C9_Witness ==
    /\ InBackRef /\ pc = "endbit"
    /\ offset = len_at_cmd - 1
    /\ len_at_cmd >= 1
    /\ Len(result) = len_at_cmd + 3
    /\ \A k \in 1..3 : result[len_at_cmd + k] = result[len_at_cmd]

\* C10 (as stated): the window starts just after the header, the stream
\* length it is cut from is at least that position (no u64 underflow) and
\* the window ends within the stream.
C10_WindowInStream ==
    current_file_position > 0 =>
        /\ current_file_position = header_lenght
        /\ current_file_len = Len(file)
        /\ current_file_len >= current_file_position

====
